---- MODULE Spec2Model ----
(***************************************************************************)
(* Freshdesk spam filter: the orchestrator (spam_filter.py), the ticket    *)
(* source adapter (freshdesk_client.py) and the classifier adapters        *)
(* (openai_client.py, ollama_client.py).                                   *)
(*                                                                         *)
(* The code is sequential and every remote call can fail, so each client   *)
(* method is an operator from a world (remote tickets + the calls issued   *)
(* so far in the current step) to the SET of its possible outcomes         *)
(* [w, raised, ret]: one outcome per way the remote calls it issues can    *)
(* end.  Handlers compose these sets; an action picks one outcome of the   *)
(* whole handler.  Confidence values are in hundredths (0.75 is 75).       *)
(***************************************************************************)
EXTENDS Integers, Sequences, FiniteSets, TLC

VARIABLES
    cfg,                \* Config class attributes (config.py)
    net,                \* the ways an HTTP request can fail
    faults,             \* number of HTTP requests that failed so far
    remote,             \* the helpdesk's tickets: id -> ticket
    processed_tickets,  \* SpamFilter.processed_tickets
    pc,                 \* "idle" | "loop" (inside process_tickets' for loop)
    tickets,            \* process_tickets: the fetched list (ticket ids)
    idx,                \* process_tickets: position of the loop in tickets
    stats,              \* process_tickets: the cycle's statistics
    log,                \* calls and remote requests issued by the last step
    result,             \* value returned by the last step
    runs,               \* number of entry-point invocations so far
    analyzed,           \* history: ids the polling process (main.py) analyzed
    handlers,           \* concurrent handle_spam_ticket executions: their position
    probe               \* OllamaClient._test_and_prepare_ollama: its locals

vars == <<cfg, net, faults, remote, processed_tickets, pc, tickets, idx, stats,
          log, result, runs, analyzed, handlers, probe>>

-----------------------------------------------------------------------------
(* Bounds of the model *)
MaxTickets == 2
MaxRuns == 2
MaxFaults == 1
MaxThread == 3
MaxInvocations == 2

(* Program constants *)
STATUS_NEW == 2
STATUS_CLOSED == 5
FRESHDESK_MAX_PER_PAGE == 100
MAX_TICKETS_PER_BATCH == 50
RUN_ONCE_LIMIT == 1
MAX_RETRIES == 3
SPAM_THRESHOLD_DEFAULT == 70
AUTO_CLOSE_SPAM_THRESHOLD_DEFAULT == 75

AGENT_ID_TO_ASSIGN == "80059226092"
OTHER_AGENT == "other-agent"
NoAgent == "None"
EXCLUSIVE_TAG == <<"Auto-Spam-Detected">>

TicketIds == 1..MaxTickets

(* Confidence values a model can answer with, around both thresholds. *)
ConfLevels == {50, SPAM_THRESHOLD_DEFAULT, AUTO_CLOSE_SPAM_THRESHOLD_DEFAULT}

(* Threshold configurations: the defaults, and the auto-close threshold    *)
(* configured below the spam threshold (both come from the environment).   *)
ThresholdConfigs ==
    { [spam |-> SPAM_THRESHOLD_DEFAULT, auto |-> AUTO_CLOSE_SPAM_THRESHOLD_DEFAULT],
      [spam |-> AUTO_CLOSE_SPAM_THRESHOLD_DEFAULT, auto |-> SPAM_THRESHOLD_DEFAULT] }

Min(a, b) == IF a <= b THEN a ELSE b

(* Python dict merge {**a, **b} on records. *)
Merge(a, b) ==
    [f \in (DOMAIN a) \cup (DOMAIN b) |-> IF f \in DOMAIN b THEN b[f] ELSE a[f]]

EmptyDict == [f \in {} |-> 0]

(* Python's None where a ticket id is expected. *)
NoTicketId == 0

-----------------------------------------------------------------------------
(* Worlds and outcomes *)

World(r, l, f) == [remote |-> r, log |-> l, faults |-> f]

Ok(w, v) == [w |-> w, raised |-> FALSE, ret |-> v]
Raise(w) == [w |-> w, raised |-> TRUE, ret |-> EmptyDict]

(* A client-level call entered, recorded in the step's log. *)
Call(w, name, t) ==
    [w EXCEPT !.log = Append(@, [m |-> "CALL", what |-> name, t |-> t,
                                 fields |-> {}, status |-> "ok"])]

(* One HTTP request: it succeeds, or fails in one of the network's ways    *)
(* while the model's budget of failures lasts.                             *)
Send(w, m, what, t, fields) ==
    { [w |-> [w EXCEPT !.log = Append(@, [m |-> m, what |-> what, t |-> t,
                                          fields |-> fields, status |-> s]),
                       !.faults = IF s = "ok" THEN @ ELSE @ + 1],
       status |-> s]
      : s \in {"ok"} \cup (IF w.faults < MaxFaults THEN net ELSE {}) }

-----------------------------------------------------------------------------
(* Remote tickets *)

CustomerEntry == [private |-> FALSE, incoming |-> TRUE, alert |-> FALSE]
AgentReply == [private |-> FALSE, incoming |-> FALSE, alert |-> FALSE]
AgentNote == [private |-> TRUE, incoming |-> FALSE, alert |-> FALSE]
SpamAlertNote == [private |-> TRUE, incoming |-> FALSE, alert |-> TRUE]

(* The ticket as the API's JSON: the fields the code reads. *)
TicketJson(r, t) ==
    [id |-> t, status |-> r[t].status, tags |-> r[t].tags,
     responder_id |-> r[t].responder_id]

(* PUT /tickets/<id>: partial update of the named fields. *)
ApplyUpdate(r, t, updates) ==
    [r EXCEPT ![t] = [f \in DOMAIN r[t] |->
                        IF f \in DOMAIN updates THEN updates[f] ELSE r[t][f]]]

(* The remote's answer to GET /tickets: its tickets newest first (a higher *)
(* id is newer), any status, at most per_page of them.                     *)
RECURSIVE Newest(_)
Newest(n) == IF n = 0 THEN <<>> ELSE <<n>> \o Newest(n - 1)

Listing(per_page) == SubSeq(Newest(MaxTickets), 1, Min(per_page, MaxTickets))

-----------------------------------------------------------------------------
(* FreshdeskClient (freshdesk_client.py) *)

(* get_tickets without the filtering of the answer. *)
GetTicketsUnfiltered(w, status, limit, only_new) ==
    LET filter == IF only_new THEN "new_and_my_open" ELSE status
        w0 == Call(w, "get_tickets", 0)
        all == Listing(Min(limit, FRESHDESK_MAX_PER_PAGE))
    IN  { IF a.status = "ok" THEN Ok(a.w, all)
                             ELSE [Raise(a.w) EXCEPT !.ret = <<>>]
          : a \in Send(w0, "GET", "tickets", 0, {filter}) }

(* get_tickets: one GET; with only_new the answer is filtered to status 2. *)
(* The result is the list of ticket ids, in the answer's order.            *)
GetTickets(w, status, limit, only_new) ==
    LET filter == IF only_new THEN "new_and_my_open" ELSE status  \* "None": no filter
        w0 == Call(w, "get_tickets", 0)
        all == Listing(Min(limit, FRESHDESK_MAX_PER_PAGE))
        IsNew(t) == w.remote[t].status = STATUS_NEW
    IN  { IF a.status = "ok"
            THEN Ok(a.w, IF only_new THEN SelectSeq(all, IsNew) ELSE all)
            ELSE [Raise(a.w) EXCEPT !.ret = <<>>]
          : a \in Send(w0, "GET", "tickets", 0, {filter}) }

(* get_ticket: GET with include=description; a 400 is retried once without *)
(* the parameter, any other failure is raised.                             *)
GetTicket(w, t) ==
    UNION { IF a.status = "ok" THEN {Ok(a.w, TicketJson(a.w.remote, t))}
            ELSE IF a.status = "e400"
            THEN { IF b.status = "ok" THEN Ok(b.w, TicketJson(b.w.remote, t))
                                      ELSE Raise(b.w)
                   : b \in Send(a.w, "GET", "ticket", t, {}) }
            ELSE {Raise(a.w)}
          : a \in Send(w, "GET", "ticket", t, {"include"}) }

(* get_ticket_conversations: one GET, failures are raised. *)
GetTicketConversations(w, t) ==
    { IF a.status = "ok" THEN Ok(a.w, a.w.remote[t].convs)
                         ELSE [Raise(a.w) EXCEPT !.ret = <<>>]
      : a \in Send(w, "GET", "conversations", t, {}) }

(* The loop without the test of incoming: the first entry not private. *)
FirstCustomerIndexAnyPublic(convs) ==
    LET hits == { i \in 1..Len(convs) : ~convs[i].private }
    IN  IF hits = {} THEN 0 ELSE CHOOSE i \in hits : \A j \in hits : i <= j

(* The loop of get_first_customer_message: index of the first entry that  *)
(* is not private and not outgoing, 0 when there is none.                  *)
FirstCustomerIndex(convs) ==
    LET hits == { i \in 1..Len(convs) : ~convs[i].private /\ convs[i].incoming }
    IN  IF hits = {} THEN 0 ELSE CHOOSE i \in hits : \A j \in hits : i <= j

NoMessage == [ticket_id |-> 0, conversation_id |-> 0, source |-> "none",
              validated |-> FALSE]

(* get_first_customer_message: ticket, then conversations, then the first  *)
(* customer entry or the ticket's own description (conversation_id None,   *)
(* written 0).  Any failure is re-raised.                                  *)
GetFirstCustomerMessage(w, t) ==
    LET w0 == Call(w, "get_first_customer_message", t)
    IN  UNION { IF g.raised THEN {[Raise(g.w) EXCEPT !.ret = NoMessage]}
                ELSE { IF c.raised THEN [Raise(c.w) EXCEPT !.ret = NoMessage]
                       ELSE LET i == FirstCustomerIndex(c.ret)
                            IN  Ok(c.w, [ticket_id |-> t, conversation_id |-> i,
                                         source |-> IF i = 0 THEN "description"
                                                             ELSE "conversation",
                                         validated |-> c.w.remote[t].validated])
                       : c \in GetTicketConversations(g.w, t) }
              : g \in GetTicket(w0, t) }

(* update_ticket without the dry-run block. *)
UpdateTicketNoDryRun(w, t, updates) ==
    { IF a.status = "ok"
        THEN LET r1 == ApplyUpdate(a.w.remote, t, updates)
             IN  Ok([a.w EXCEPT !.remote = r1], TicketJson(r1, t))
        ELSE Raise(a.w)
      : a \in Send(w, "PUT", "ticket", t, DOMAIN updates) }

(* update_ticket: in dry run no PUT, the current ticket is read and        *)
(* returned (or {"id": id, **updates} when the read fails); otherwise one  *)
(* PUT whose failure is raised.                                            *)
UpdateTicket(w, t, updates) ==
    IF cfg.dry
    THEN { IF g.raised THEN Ok(g.w, Merge([id |-> t], updates)) ELSE Ok(g.w, g.ret)
           : g \in GetTicket(w, t) }
    ELSE { IF a.status = "ok"
             THEN LET r1 == ApplyUpdate(a.w.remote, t, updates)
                  IN  Ok([a.w EXCEPT !.remote = r1], TicketJson(r1, t))
             ELSE Raise(a.w)
           : a \in Send(w, "PUT", "ticket", t, DOMAIN updates) }

InSeq(x, s) == \E i \in 1..Len(s) : s[i] = x

(* add_tag_to_ticket: the dry-run block returns the ticket when the tag is *)
(* already there and otherwise falls through to the normal block, which    *)
(* reads the ticket and updates the tag list when the tag is missing.      *)
AddTagToTicket(w, t, tag) ==
    LET w0 == Call(w, "add_tag_to_ticket", t)
        Normal(w1) ==
            UNION { IF g.raised THEN {Raise(g.w)}
                    ELSE IF ~InSeq(tag, g.ret.tags)
                    THEN UpdateTicket(g.w, t, [tags |-> Append(g.ret.tags, tag)])
                    ELSE {Ok(g.w, g.ret)}
                  : g \in GetTicket(w1, t) }
    IN  IF cfg.dry
        THEN UNION { IF ~g.raised /\ InSeq(tag, g.ret.tags)
                       THEN {Ok(g.w, g.ret)}
                       ELSE Normal(g.w)
                     : g \in GetTicket(w0, t) }
        ELSE Normal(w0)

(* add_note_to_ticket: in dry run a simulated note and no request;         *)
(* otherwise one POST whose failure is raised.                             *)
AddNoteToTicket(w, t, note) ==
    LET w0 == Call(w, "add_note_to_ticket", t)
    IN  IF cfg.dry
        THEN {Ok(w0, [id |-> 0, ticket_id |-> t, private |-> note.private])}
        ELSE { IF a.status = "ok"
                 THEN Ok([a.w EXCEPT !.remote[t].convs = Append(@, note)],
                         [id |-> Len(a.w.remote[t].convs) + 1, ticket_id |-> t,
                          private |-> note.private])
                 ELSE Raise(a.w)
               : a \in Send(w0, "POST", "notes", t, {}) }

(* The dry run merging in the other order: {**simulated, **ticket}. *)
MarkAsSpamDryRunReversed(w, t) ==
    { LET ticket_for_dry_run == IF g.raised THEN EmptyDict ELSE g.ret
      IN  Ok(g.w, Merge([id |-> t, responder_id |-> AGENT_ID_TO_ASSIGN,
                         tags |-> EXCLUSIVE_TAG, status |-> STATUS_CLOSED],
                        ticket_for_dry_run))
      : g \in GetTicket(w, t) }

(* mark_as_spam, dry run: read the ticket (a failure gives {}), and return *)
(* it merged with the simulated responder, tags and status.                *)
MarkAsSpamDryRun(w, t) ==
    { LET ticket_for_dry_run == IF g.raised THEN EmptyDict ELSE g.ret
      IN  Ok(g.w, Merge(ticket_for_dry_run,
                        [id |-> t, responder_id |-> AGENT_ID_TO_ASSIGN,
                         tags |-> EXCLUSIVE_TAG, status |-> STATUS_CLOSED]))
      : g \in GetTicket(w, t) }

(* Steps 2 and 3 with the tag update's failure swallowed. *)
MarkAsSpamTagsThenStatusUnchecked(w, t) ==
    UNION { UpdateTicket(b.w, t, [status |-> STATUS_CLOSED])
          : b \in UpdateTicket(w, t, [tags |-> EXCLUSIVE_TAG]) }

(* mark_as_spam, steps 2 and 3 with the sentinel tag appended to the tags  *)
(* the ticket has.                                                         *)
MarkAsSpamTagsAppended(w, t) ==
    UNION { IF b.raised THEN {Raise(b.w)}
            ELSE UpdateTicket(b.w, t, [status |-> STATUS_CLOSED])
          : b \in UpdateTicket(w, t,
                     [tags |-> w.remote[t].tags \o EXCLUSIVE_TAG]) }

(* mark_as_spam, steps 2 and 3: overwrite the tags, then set status 5.     *)
MarkAsSpamTagsThenStatus(w, t) ==
    UNION { IF b.raised THEN {Raise(b.w)}
            ELSE UpdateTicket(b.w, t, [status |-> STATUS_CLOSED])
          : b \in UpdateTicket(w, t, [tags |-> EXCLUSIVE_TAG]) }

(* mark_as_spam with the assignment issued whatever the ticket's agent. *)
MarkAsSpamAlwaysAssign(w, t) ==
    LET w0 == Call(w, "mark_as_spam", t)
    IN  IF cfg.dry THEN MarkAsSpamDryRun(w0, t)
        ELSE UNION { IF g.raised THEN {Raise(g.w)}
                     ELSE UNION { IF a.raised THEN {Raise(a.w)}
                                  ELSE MarkAsSpamTagsThenStatus(a.w, t)
                                : a \in UpdateTicket(g.w, t,
                                         [responder_id |-> AGENT_ID_TO_ASSIGN]) }
                   : g \in GetTicket(w0, t) }

(* mark_as_spam undoing its updates when one of them fails. *)
MarkAsSpamRollback(w, t) ==
    LET w0 == Call(w, "mark_as_spam", t)
        Undone(o) == IF o.raised THEN Raise([o.w EXCEPT !.remote = w.remote]) ELSE o
    IN  IF cfg.dry THEN MarkAsSpamDryRun(w0, t)
        ELSE UNION { IF g.raised THEN {Raise(g.w)}
                     ELSE IF g.ret.responder_id # AGENT_ID_TO_ASSIGN
                     THEN UNION { IF a.raised THEN {Raise(a.w)}
                                  ELSE { Undone(o) :
                                           o \in MarkAsSpamTagsThenStatus(a.w, t) }
                                : a \in UpdateTicket(g.w, t,
                                         [responder_id |-> AGENT_ID_TO_ASSIGN]) }
                     ELSE { Undone(o) : o \in MarkAsSpamTagsThenStatus(g.w, t) }
                   : g \in GetTicket(w0, t) }

(* mark_as_spam: assign the agent unless already assigned, then the tags,  *)
(* then the status; the first failure is re-raised.                        *)
MarkAsSpam(w, t) ==
    LET w0 == Call(w, "mark_as_spam", t)
    IN  IF cfg.dry THEN MarkAsSpamDryRun(w0, t)
        ELSE UNION { IF g.raised THEN {Raise(g.w)}
                     ELSE IF g.ret.responder_id # AGENT_ID_TO_ASSIGN
                     THEN UNION { IF a.raised THEN {Raise(a.w)}
                                  ELSE MarkAsSpamTagsThenStatus(a.w, t)
                                : a \in UpdateTicket(g.w, t,
                                         [responder_id |-> AGENT_ID_TO_ASSIGN]) }
                     ELSE MarkAsSpamTagsThenStatus(g.w, t)
                   : g \in GetTicket(w0, t) }

-----------------------------------------------------------------------------
(* Classifier adapters *)

(* What the model call can produce.  kind: "json" (the text parses and the *)
(* fields are usable), "not_json" (it does not parse), "bad_value" (it     *)
(* parses but float(confidence) raises ValueError), "bad_type" (it parses  *)
(* but is no object, or float() raises TypeError), "error" (the call       *)
(* itself raises).  says_spam / says_yes: the lowercased text contains     *)
(* "spam" / contains "true" or "yes".                                      *)
Response(kind, is_spam, confidence, says_spam, says_yes) ==
    [kind |-> kind, is_spam |-> is_spam, confidence |-> confidence,
     says_spam |-> says_spam, says_yes |-> says_yes]

JsonResponses ==
    { Response("json", s, c, TRUE, s) : s \in BOOLEAN, c \in ConfLevels }

TextResponses ==
    { Response(k, FALSE, 0, a, b) :
        k \in {"not_json", "bad_value", "bad_type"}, a \in BOOLEAN, b \in BOOLEAN }

ErrorResponse == Response("error", FALSE, 0, FALSE, FALSE)

AllResponses == JsonResponses \cup TextResponses \cup {ErrorResponse}

(* The responses the orchestrator's runs draw from: a spam verdict at each *)
(* confidence level, a not-spam verdict at a confidence above both         *)
(* thresholds, a text that does not parse, and a failing call.             *)
CycleResponses ==
    { r \in JsonResponses : r.is_spam \/ r.confidence = AUTO_CLOSE_SPAM_THRESHOLD_DEFAULT }
        \cup {Response("not_json", FALSE, 0, TRUE, TRUE), ErrorResponse}

Verdict(is_spam, confidence, reasoning) ==
    [is_spam |-> is_spam, confidence |-> confidence, reasoning |-> reasoning]

NoVerdict == Verdict(FALSE, 0, "none")

(* The model call, recorded in the log; the prompt carries the validation  *)
(* guidance when is_system_validated is set.                               *)
ModelCall(w, r, is_system_validated) ==
    [w EXCEPT !.log = Append(@, [m |-> "MODEL", what |-> "chat", t |-> 0,
                                 fields |-> IF is_system_validated
                                              THEN {"validation_guidance"} ELSE {},
                                 status |-> IF r.kind = "error" THEN "err" ELSE "ok"])]

(* OpenAIClient.analyze_spam: one chat completion.  json.loads failing is  *)
(* caught (JSONDecodeError).  For every other exception the next handler,  *)
(* "except openai.APIError", is evaluated; the module imports only the     *)
(* name OpenAI ("from openai import OpenAI"), so that evaluation raises    *)
(* NameError and the exception leaves analyze_spam.                        *)
OpenAIAnalyzeSpam(w, is_system_validated, responses) ==
    LET w0 == Call(w, "analyze_spam", 0)
    IN  { LET w1 == ModelCall(w0, r, is_system_validated)
          IN  CASE r.kind = "json" -> Ok(w1, Verdict(r.is_spam, r.confidence, "model"))
                [] r.kind = "not_json" -> Ok(w1, Verdict(FALSE, 0, "AI response parsing failed"))
                [] OTHER -> [Raise(w1) EXCEPT !.ret = NoVerdict]
          : r \in responses }

(* OllamaClient._parse_spam_response: JSONDecodeError, ValueError and      *)
(* KeyError fall back to the lexical heuristic; other exceptions leave it. *)
OllamaParseSpamResponse(w, r) ==
    CASE r.kind = "json" -> Ok(w, Verdict(r.is_spam, r.confidence, "model"))
      [] r.kind \in {"not_json", "bad_value"} ->
            IF r.says_spam /\ r.says_yes
            THEN Ok(w, Verdict(TRUE, 50, "Parsed from text response"))
            ELSE Ok(w, Verdict(FALSE, 0, "Could not parse response"))
      [] OTHER -> [Raise(w) EXCEPT !.ret = NoVerdict]

(* OllamaClient.analyze_spam: one chat call; every exception of the call   *)
(* or of the parsing is caught and gives the safe default.                 *)
OllamaAnalyzeSpam(w, is_system_validated, responses) ==
    LET w0 == Call(w, "analyze_spam", 0)
    IN  { LET w1 == ModelCall(w0, r, is_system_validated)
              p == IF r.kind = "error" THEN [Raise(w1) EXCEPT !.ret = NoVerdict]
                   ELSE OllamaParseSpamResponse(w1, r)
          IN  IF p.raised THEN Ok(w1, Verdict(FALSE, 0, "Analysis failed"))
                          ELSE p
          : r \in responses }

-----------------------------------------------------------------------------
(* SpamFilter (spam_filter.py) *)

(* The decision with a strict comparison: equality would not count. *)
SpamDecisionStrict(is_spam_ai, confidence, spam_threshold) ==
    is_spam_ai /\ confidence > spam_threshold

(* The decision taken from the classifier's verdict alone. *)
SpamDecisionAdapterOnly(is_spam_ai, confidence, spam_threshold) ==
    is_spam_ai

(* The decision policy of all three entry points. *)
SpamDecision(is_spam_ai, confidence, spam_threshold) ==
    is_spam_ai /\ confidence >= spam_threshold

(* The scan looking at the first entry only. *)
HasSpamAlertNoteFirstOnly(convs) ==
    Len(convs) >= 1 /\ convs[1].private /\ convs[1].alert

(* The guard's scan: a private entry whose body holds the marker. *)
HasSpamAlertNote(convs) ==
    \E i \in 1..Len(convs) : convs[i].private /\ convs[i].alert

(* The same steps with a strict comparison against the auto-close         *)
(* threshold.                                                              *)
HandleSpamNoteThenCloseStrict(w, t, confidence) ==
    UNION { IF confidence > cfg.auto
              THEN { m.w : m \in MarkAsSpam(n.w, t) }
              ELSE { n.w }
          : n \in AddNoteToTicket(w, t, SpamAlertNote) }

(* The note and close steps closing whatever the confidence. *)
HandleSpamNoteThenCloseAlways(w, t, confidence) ==
    UNION { { m.w : m \in MarkAsSpam(n.w, t) }
          : n \in AddNoteToTicket(w, t, SpamAlertNote) }

(* The note and close steps ending when the note could not be added. *)
HandleSpamNoteFailureStops(w, t, confidence) ==
    UNION { IF ~n.raised /\ confidence >= cfg.auto
              THEN { m.w : m \in MarkAsSpam(n.w, t) }
              ELSE { n.w }
          : n \in AddNoteToTicket(w, t, SpamAlertNote) }

(* Everything handle_spam_ticket does is inside try/except: it never       *)
(* raises, so its outcomes are worlds.                                     *)
(* After the guard found nothing (or could not read): add the note, whose  *)
(* failure is only logged, then mark_as_spam when the confidence reaches   *)
(* the auto-close threshold (its failure ends in the outer except).        *)
HandleSpamNoteThenClose(w, t, confidence) ==
    UNION { IF confidence >= cfg.auto
              THEN { m.w : m \in MarkAsSpam(n.w, t) }
              ELSE { n.w }
          : n \in AddNoteToTicket(w, t, SpamAlertNote) }

(* The guard stopping at an existing note whatever the confidence. *)
HandleSpamTicketNoteStops(w, t, confidence) ==
    LET w0 == Call(w, "handle_spam_ticket", t)
    IN  UNION { IF ~c.raised /\ HasSpamAlertNote(c.ret)
                  THEN { c.w }
                  ELSE HandleSpamNoteThenClose(c.w, t, confidence)
              : c \in GetTicketConversations(w0, t) }

(* handle_spam_ticket: the guard's read of the conversations; an existing  *)
(* spam-alert note means no new note, mark_as_spam when the confidence     *)
(* reaches the auto-close threshold, and return; otherwise, and when the   *)
(* read failed, the note and close steps.                                  *)
HandleSpamTicket(w, t, confidence) ==
    LET w0 == Call(w, "handle_spam_ticket", t)
    IN  UNION { IF ~c.raised /\ HasSpamAlertNote(c.ret)
                  THEN IF confidence >= cfg.auto
                         THEN { m.w : m \in MarkAsSpam(c.w, t) }
                         ELSE { c.w }
                  ELSE HandleSpamNoteThenClose(c.w, t, confidence)
              : c \in GetTicketConversations(w0, t) }

AnalysisResult(t, is_spam, confidence, reasoning, action) ==
    [ticket_id |-> t, is_spam |-> is_spam, confidence |-> confidence,
     reasoning |-> reasoning, action_taken |-> action]

(* The adapter's return value, recorded for the step. *)
Returned(w, v) ==
    [w EXCEPT !.log = Append(@, [m |-> "RETURN", what |-> "analyze_spam", t |-> 0,
                                 fields |-> {}, status |-> "ok",
                                 is_spam |-> v.is_spam, confidence |-> v.confidence])]

(* analyze_first_customer_message: classify, decide, handle when spam; an  *)
(* exception of the adapter gives the "Analysis failed" result.            *)
AnalyzeFirstCustomerMessage(w, message_data, responses) ==
    LET t == message_data.ticket_id
    IN  UNION { IF a.raised
                  THEN {Ok(a.w, AnalysisResult(t, FALSE, 0, "Analysis failed", "none"))}
                  ELSE LET is_spam == SpamDecision(a.ret.is_spam, a.ret.confidence,
                                                   cfg.spam)
                           res == AnalysisResult(t, is_spam, a.ret.confidence,
                                                 a.ret.reasoning, "none")
                           w1 == Returned(a.w, a.ret)
                       IN  IF is_spam
                             THEN { Ok(h, res) : h \in HandleSpamTicket(w1, t,
                                                          a.ret.confidence) }
                             ELSE {Ok(w1, res)}
              : a \in OpenAIAnalyzeSpam(w, message_data.validated, responses) }

(* analyze_ticket: the same pipeline on a ticket dictionary; the whole     *)
(* body is inside one try/except.                                          *)
AnalyzeTicket(w, t, responses) ==
    UNION { IF a.raised
              THEN {Ok(a.w, AnalysisResult(t, FALSE, 0, "Analysis failed", "none"))}
              ELSE LET is_spam == SpamDecision(a.ret.is_spam, a.ret.confidence,
                                               cfg.spam)
                       res == AnalysisResult(t, is_spam, a.ret.confidence,
                                             a.ret.reasoning, "none")
                       w1 == Returned(a.w, a.ret)
                   IN  IF is_spam
                         THEN { Ok(h, res) : h \in HandleSpamTicket(w1, t,
                                                      a.ret.confidence) }
                         ELSE {Ok(w1, res)}
          : a \in OpenAIAnalyzeSpam(w, w.remote[t].validated, responses) }

(* process_single_ticket_data for a payload with a ticket id: same         *)
(* pipeline on the payload; ret.add tells whether the id is added to       *)
(* processed_tickets (not on the except path).                             *)
ProcessSingleTicketAnalysis(w, t, responses) ==
    UNION { IF a.raised
              THEN {Ok(a.w, [res |-> AnalysisResult(t, FALSE, 0, "Analysis failed",
                                                    "error_in_processing"),
                             add |-> FALSE])}
              ELSE LET is_spam == SpamDecision(a.ret.is_spam, a.ret.confidence,
                                               cfg.spam)
                       w1 == Returned(a.w, a.ret)
                   IN  IF is_spam
                         THEN { Ok(h, [res |-> AnalysisResult(t, is_spam, a.ret.confidence,
                                                  a.ret.reasoning, "handled_as_spam"),
                                       add |-> TRUE])
                                : h \in HandleSpamTicket(w1, t, a.ret.confidence) }
                         ELSE {Ok(w1, [res |-> AnalysisResult(t, is_spam, a.ret.confidence,
                                                  a.ret.reasoning, "marked_as_legitimate"),
                                       add |-> TRUE])}
          : a \in OpenAIAnalyzeSpam(w, w.remote[t].validated, responses) }

(* The result for a payload without a ticket id. *)
TicketIdMissing ==
    [res |-> AnalysisResult(NoTicketId, FALSE, 0, "Ticket ID missing", "none"),
     add |-> FALSE]

(* The entry point skipping an id that is in processed_tickets. *)
ProcessSingleTicketDataSkipping(w, t, responses) ==
    IF t = NoTicketId THEN {Ok(w, TicketIdMissing)}
    ELSE IF t \in processed_tickets
    THEN {Ok(w, [res |-> AnalysisResult(t, FALSE, 0, "none", "skipped"),
                 add |-> FALSE])}
    ELSE ProcessSingleTicketAnalysis(w, t, responses)

(* process_single_ticket_data: a payload without a ticket id returns the   *)
(* error result at once; any other payload is analyzed, whatever           *)
(* processed_tickets holds.                                                *)
ProcessSingleTicketData(w, t, responses) ==
    IF t = NoTicketId THEN {Ok(w, TicketIdMissing)}
    ELSE ProcessSingleTicketAnalysis(w, t, responses)

(* The loop body with an "Analysis failed" result taken to the except      *)
(* branch.                                                                 *)
ProcessOneTicketFailureErrored(w, t, responses) ==
    UNION { IF f.raised
              THEN {Ok(f.w, [outcome |-> "errored",
                             res |-> AnalysisResult(t, FALSE, 0, "none", "none")])}
              ELSE { Ok(a.w, [outcome |-> IF a.ret.reasoning = "Analysis failed"
                                            THEN "errored"
                                            ELSE IF a.ret.is_spam THEN "spam"
                                                                  ELSE "legitimate",
                              res |-> a.ret])
                     : a \in AnalyzeFirstCustomerMessage(f.w, f.ret, responses) }
          : f \in GetFirstCustomerMessage(w, t) }

(* One iteration of process_tickets' loop body after the skip test: the    *)
(* extraction, then the analysis.  ret.outcome names the branch taken.     *)
ProcessOneTicket(w, t, responses) ==
    UNION { IF f.raised
              THEN {Ok(f.w, [outcome |-> "errored",
                             res |-> AnalysisResult(t, FALSE, 0, "none", "none")])}
              ELSE { Ok(a.w, [outcome |-> IF a.ret.is_spam THEN "spam" ELSE "legitimate",
                              res |-> a.ret])
                     : a \in AnalyzeFirstCustomerMessage(f.w, f.ret, responses) }
          : f \in GetFirstCustomerMessage(w, t) }

-----------------------------------------------------------------------------
(* State machine of the orchestrator *)

ZeroStats ==
    [total_processed |-> 0, spam_detected |-> 0, legitimate |-> 0, errors |-> 0,
     skipped_already_processed |-> 0]

(* A new ticket as the helpdesk holds it: status 2; odd ids have no        *)
(* conversation entries yet, even ids carry tags, an assignee and a thread *)
(* of an agent note followed by the customer's entry.  validated: the      *)
(* customer's text holds the phrase "USER INFORMATION WAS VALIDATED BY OUR *)
(* SYSTEM".                                                                *)
InitialTicket(t) ==
    IF t % 2 = 1
    THEN [status |-> STATUS_NEW, tags |-> <<>>, responder_id |-> NoAgent,
          convs |-> <<>>, validated |-> FALSE]
    ELSE [status |-> STATUS_NEW, tags |-> <<"billing">>, responder_id |-> OTHER_AGENT,
          convs |-> <<AgentNote, CustomerEntry>>, validated |-> TRUE]

Configs ==
    { [dry |-> d, spam |-> th.spam, auto |-> th.auto] :
        d \in BOOLEAN, th \in ThresholdConfigs }

Limits == {RUN_ONCE_LIMIT, MAX_TICKETS_PER_BATCH}

(* No OllamaClient is being constructed. *)
NoProbe == [pc |-> "none"]

InitLocal ==
    /\ cfg \in Configs
    /\ processed_tickets = {}
    /\ pc = "idle"
    /\ tickets = <<>>
    /\ idx = 1
    /\ stats = ZeroStats
    /\ faults = 0
    /\ log = <<>>
    /\ result = [op |-> "init"]
    /\ runs = 0
    /\ analyzed = {}
    /\ handlers = <<>>
    /\ probe = NoProbe

InitCommon ==
    /\ InitLocal
    /\ remote = [t \in TicketIds |-> InitialTicket(t)]

Init ==
    /\ InitCommon
    /\ net = {"err"}

(* The listing call with its failure swallowed: an empty list. *)
FetchTicketsSwallowed(w, new_tickets_only, limit) ==
    { [o EXCEPT !.raised = FALSE] : o \in GetTickets(w, "None", limit, TRUE) }

(* process_tickets up to the for loop: fresh statistics, the listing call  *)
(* chosen by Config.PROCESS_NEW_TICKETS_ONLY (get_tickets' only_new        *)
(* parameter is not passed in the else branch and defaults to True), and   *)
(* on its failure the outer except: errors + 1, return.                    *)
FetchTickets(w, new_tickets_only, limit) ==
    IF new_tickets_only THEN GetTickets(w, "None", limit, TRUE)
                        ELSE GetTickets(w, "open", limit, TRUE)

BeginProcessTickets(limit, fresh) ==
    /\ pc = "idle"
    /\ runs < MaxRuns
    /\ LET w == World(remote, <<>>, faults)
           w0 == Call(IF fresh THEN Call(w, "SpamFilter", 0) ELSE w,
                      "process_tickets", 0)
       IN  \E new_tickets_only \in BOOLEAN :
           \E o \in FetchTickets(w0, new_tickets_only, limit) :
             /\ log' = o.w.log
             /\ faults' = o.w.faults
             /\ remote' = o.w.remote
             /\ tickets' = o.ret
             /\ IF o.raised
                  THEN /\ stats' = [ZeroStats EXCEPT !.errors = 1]
                       /\ pc' = "idle"
                       /\ result' = [op |-> "process_tickets", raised |-> FALSE,
                                     fetched |-> FALSE, stats |-> stats',
                                     new_tickets_only |-> new_tickets_only,
                                     limit |-> limit]
                  ELSE /\ stats' = ZeroStats
                       /\ pc' = "loop"
                       /\ result' = [op |-> "fetch",
                                     new_tickets_only |-> new_tickets_only,
                                     limit |-> limit]
    /\ idx' = 1
    /\ processed_tickets' = IF fresh THEN {} ELSE processed_tickets
    /\ runs' = runs + 1
    /\ UNCHANGED <<handlers, probe, cfg, net, analyzed>>

(* main.py run_spam_detection: a new SpamFilter for every cycle. *)
RunSpamDetection ==
    \E limit \in Limits : BeginProcessTickets(limit, TRUE)

(* process_tickets called again on the same SpamFilter instance. *)
ProcessTickets ==
    \E limit \in Limits : BeginProcessTickets(limit, FALSE)

Bump(s, field) == [s EXCEPT ![field] = @ + 1]

(* The statistics with an errored ticket counted as processed too. *)
StatsAfterErrorProcessed(s, outcome) ==
    CASE outcome = "skipped" -> Bump(s, "skipped_already_processed")
      [] outcome = "errored" -> Bump(Bump(s, "total_processed"), "errors")
      [] outcome = "spam" -> Bump(Bump(s, "total_processed"), "spam_detected")
      [] OTHER -> Bump(Bump(s, "total_processed"), "legitimate")

(* The statistics after the loop body took the branch named by outcome. *)
StatsAfter(s, outcome) ==
    CASE outcome = "skipped" -> Bump(s, "skipped_already_processed")
      [] outcome = "errored" -> Bump(s, "errors")
      [] outcome = "spam" -> Bump(Bump(s, "total_processed"), "spam_detected")
      [] OTHER -> Bump(Bump(s, "total_processed"), "legitimate")

(* The id added on every branch. *)
ProcessedAfterAlways(processed, ticket_id, outcome) ==
    processed \cup {ticket_id}

(* The set replaced by the id instead of extended by it. *)
ProcessedAfterReplaced(processed, ticket_id, outcome) ==
    IF outcome \in {"spam", "legitimate"} THEN {ticket_id} ELSE processed

(* processed_tickets after the loop body: the id is added at the end of    *)
(* the try block, which the except branch does not reach.                  *)
ProcessedAfter(processed, ticket_id, outcome) ==
    IF outcome \in {"spam", "legitimate"} THEN processed \cup {ticket_id}
                                          ELSE processed

(* A loop that stops at the first ticket that errors. *)
NextIndexAbortOnError(i, n, outcome) ==
    IF outcome = "errored" THEN n + 1 ELSE i + 1

(* The for loop goes on with the next ticket whatever the branch taken. *)
NextIndex(i, n, outcome) == i + 1

(* One iteration of the for loop; poll tells whether the cycle belongs to  *)
(* main.py's polling process, whose analyzed ids the history records.      *)
LoopBody(poll) ==
    /\ pc = "loop"
    /\ idx <= Len(tickets)
    /\ LET ticket_id == tickets[idx]
       IN  IF ticket_id \in processed_tickets
           THEN /\ stats' = StatsAfter(stats, "skipped")
                /\ log' = <<>>
                /\ result' = [op |-> "iteration", ticket_id |-> ticket_id,
                              outcome |-> "skipped", before |-> stats,
                              analyzed_before |-> ticket_id \in analyzed]
                /\ idx' = NextIndex(idx, Len(tickets), "skipped")
                /\ UNCHANGED <<remote, processed_tickets, faults, analyzed>>
           ELSE \E o \in ProcessOneTicket(World(remote, <<>>, faults), ticket_id,
                                          CycleResponses) :
                /\ remote' = o.w.remote
                /\ log' = o.w.log
                /\ faults' = o.w.faults
                /\ result' = [op |-> "iteration", ticket_id |-> ticket_id,
                              outcome |-> o.ret.outcome, before |-> stats,
                              analyzed_before |-> ticket_id \in analyzed,
                              res |-> o.ret.res]
                /\ stats' = StatsAfter(stats, o.ret.outcome)
                /\ processed_tickets' = ProcessedAfter(processed_tickets, ticket_id,
                                                       o.ret.outcome)
                /\ idx' = NextIndex(idx, Len(tickets), o.ret.outcome)
                /\ analyzed' = IF poll /\ o.ret.outcome \in {"spam", "legitimate"}
                                 THEN analyzed \cup {ticket_id} ELSE analyzed
    /\ UNCHANGED <<handlers, probe, cfg, net, pc, tickets, runs>>

LoopIteration == LoopBody(FALSE)

(* The loop is exhausted: process_tickets returns the statistics. *)
LoopExit ==
    /\ pc = "loop"
    /\ idx > Len(tickets)
    /\ pc' = "idle"
    /\ log' = <<>>
    /\ result' = [op |-> "process_tickets", raised |-> FALSE, fetched |-> TRUE,
                  stats |-> stats]
    /\ UNCHANGED <<handlers, probe, cfg, net, faults, remote, processed_tickets, tickets, idx, stats,
                   runs, analyzed>>

(* lambda_handler with a webhook payload carrying ticket t: the global     *)
(* SpamFilter instance processes the payload.                              *)
LambdaHandlerTicket ==
    /\ pc = "idle"
    /\ runs < MaxRuns
    /\ \E t \in TicketIds :
         \E o \in ProcessSingleTicketData(World(remote, <<>>, faults), t,
                                          CycleResponses) :
            /\ remote' = o.w.remote
            /\ faults' = o.w.faults
            /\ log' = o.w.log
            /\ result' = [op |-> "event", ticket_id |-> t, statusCode |-> 200,
                          res |-> o.ret.res]
            /\ processed_tickets' = IF o.ret.add THEN processed_tickets \cup {t}
                                                 ELSE processed_tickets
    /\ runs' = runs + 1
    /\ UNCHANGED <<handlers, probe, cfg, net, pc, tickets, idx, stats, analyzed>>

(* analyze_ticket called with ticket t (the entry point has no caller in   *)
(* the repository; it does not touch processed_tickets).                   *)
AnalyzeTicketCall ==
    /\ pc = "idle"
    /\ runs < MaxRuns
    /\ \E t \in TicketIds :
         \E o \in AnalyzeTicket(World(remote, <<>>, faults), t, CycleResponses) :
            /\ remote' = o.w.remote
            /\ faults' = o.w.faults
            /\ log' = o.w.log
            /\ result' = [op |-> "analyze_ticket", ticket_id |-> t, res |-> o.ret]
    /\ runs' = runs + 1
    /\ UNCHANGED <<handlers, probe, cfg, net, processed_tickets, pc, tickets, idx, stats, analyzed>>

Next ==
    \/ RunSpamDetection
    \/ ProcessTickets
    \/ LoopIteration
    \/ LoopExit
    \/ LambdaHandlerTicket

Spec == Init /\ [][Next]_vars

-----------------------------------------------------------------------------
(* main.py's polling process (run_continuous): every cycle is              *)
(* run_spam_detection, on a SpamFilter of its own.                         *)

PollLoopIteration == LoopBody(TRUE)

NextPoll ==
    \/ RunSpamDetection
    \/ PollLoopIteration
    \/ LoopExit

SpecPoll == Init /\ [][NextPoll]_vars

-----------------------------------------------------------------------------
(* The three analysis entry points of SpamFilter, called directly *)

AnalyzeFirstCustomerMessageCall ==
    /\ pc = "idle"
    /\ runs < MaxRuns
    /\ \E t \in TicketIds :
         LET message_data == [ticket_id |-> t, conversation_id |-> 0,
                              source |-> "description",
                              validated |-> remote[t].validated]
         IN  \E o \in AnalyzeFirstCustomerMessage(World(remote, <<>>, faults),
                                                  message_data, AllResponses) :
                /\ remote' = o.w.remote
                /\ faults' = o.w.faults
                /\ log' = o.w.log
                /\ result' = [op |-> "analyze_first_customer_message",
                              ticket_id |-> t, res |-> o.ret]
    /\ runs' = runs + 1
    /\ UNCHANGED <<handlers, probe, cfg, net, processed_tickets, pc, tickets, idx, stats, analyzed>>

ProcessSingleTicketDataCall ==
    /\ pc = "idle"
    /\ runs < MaxRuns
    /\ \E t \in TicketIds \cup {NoTicketId} :
         \E o \in ProcessSingleTicketData(World(remote, <<>>, faults), t, AllResponses) :
            /\ remote' = o.w.remote
            /\ faults' = o.w.faults
            /\ log' = o.w.log
            /\ result' = [op |-> "process_single_ticket_data", ticket_id |-> t,
                          res |-> o.ret.res,
                          processed_before |-> processed_tickets,
                          remote_before |-> remote]
            /\ processed_tickets' = IF o.ret.add THEN processed_tickets \cup {t}
                                                 ELSE processed_tickets
    /\ runs' = runs + 1
    /\ UNCHANGED <<handlers, probe, cfg, net, pc, tickets, idx, stats, analyzed>>

NextEntry ==
    \/ AnalyzeFirstCustomerMessageCall
    \/ AnalyzeTicketCall
    \/ ProcessSingleTicketDataCall

SpecEntry == Init /\ [][NextEntry]_vars

-----------------------------------------------------------------------------
(* FreshdeskClient's mutating methods, called directly *)

InitClient ==
    /\ InitCommon
    /\ net = {"err", "e400"}

UpdateRequests ==
    { [status |-> STATUS_CLOSED],
      [tags |-> EXCLUSIVE_TAG],
      [responder_id |-> AGENT_ID_TO_ASSIGN],
      [status |-> STATUS_NEW, tags |-> <<"billing">>] }

TagRequests == {"billing", "spam"}

(* A client call's step: the outcome o of the call on ticket t. *)
ClientStep(op, t, request, o) ==
    /\ remote' = o.w.remote
    /\ faults' = o.w.faults
    /\ log' = o.w.log
    /\ result' = [op |-> op, ticket_id |-> t, request |-> request,
                  before |-> remote[t], raised |-> o.raised, ret |-> o.ret]
    /\ runs' = runs + 1
    /\ UNCHANGED <<handlers, probe, cfg, net, processed_tickets, pc, tickets, idx, stats, analyzed>>

UpdateTicketCall ==
    /\ runs < MaxRuns
    /\ \E t \in TicketIds, updates \in UpdateRequests :
         \E o \in UpdateTicket(Call(World(remote, <<>>, faults), "update_ticket", t),
                               t, updates) :
            ClientStep("update_ticket", t, updates, o)

AddTagToTicketCall ==
    /\ runs < MaxRuns
    /\ \E t \in TicketIds, tag \in TagRequests :
         \E o \in AddTagToTicket(World(remote, <<>>, faults), t, tag) :
            ClientStep("add_tag_to_ticket", t, [tag |-> tag], o)

AddNoteToTicketCall ==
    /\ runs < MaxRuns
    /\ \E t \in TicketIds, note \in {SpamAlertNote, AgentNote} :
         \E o \in AddNoteToTicket(World(remote, <<>>, faults), t, note) :
            ClientStep("add_note_to_ticket", t, note, o)

MarkAsSpamCall ==
    /\ runs < MaxRuns
    /\ \E t \in TicketIds :
         \E o \in MarkAsSpam(World(remote, <<>>, faults), t) :
            ClientStep("mark_as_spam", t, EmptyDict, o)

GetTicketsCall ==
    /\ runs < MaxRuns
    /\ \E status \in {"None", "open"}, limit \in Limits, only_new \in BOOLEAN :
         \E o \in GetTickets(World(remote, <<>>, faults), status, limit, only_new) :
            /\ remote' = o.w.remote
            /\ faults' = o.w.faults
            /\ log' = o.w.log
            /\ result' = [op |-> "get_tickets",
                          request |-> [status |-> status, limit |-> limit,
                                       only_new |-> only_new],
                          raised |-> o.raised, ret |-> o.ret]
    /\ runs' = runs + 1
    /\ UNCHANGED <<handlers, probe, cfg, net, processed_tickets, pc, tickets, idx, stats, analyzed>>

NextClient ==
    \/ GetTicketsCall
    \/ UpdateTicketCall
    \/ AddTagToTicketCall
    \/ AddNoteToTicketCall
    \/ MarkAsSpamCall

SpecClient == InitClient /\ [][NextClient]_vars

-----------------------------------------------------------------------------
(* get_first_customer_message on every conversation thread *)

ThreadEntries == {CustomerEntry, AgentReply, AgentNote, SpamAlertNote}

Threads == UNION { [1..n -> ThreadEntries] : n \in 0..MaxThread }

(* Ticket 1 carries any thread of up to MaxThread entries. *)
InitExtract ==
    /\ InitLocal
    /\ net = {"err", "e400"}
    /\ \E thread \in Threads :
          remote = [t \in TicketIds |->
                      IF t = 1 THEN [InitialTicket(t) EXCEPT !.convs = thread]
                               ELSE InitialTicket(t)]

GetFirstCustomerMessageCall ==
    /\ runs < MaxRuns
    /\ \E t \in TicketIds :
         \E o \in GetFirstCustomerMessage(World(remote, <<>>, faults), t) :
            /\ faults' = o.w.faults
            /\ log' = o.w.log
            /\ result' = [op |-> "get_first_customer_message", ticket_id |-> t,
                          raised |-> o.raised, ret |-> o.ret]
    /\ runs' = runs + 1
    /\ UNCHANGED <<handlers, probe, cfg, net, remote, processed_tickets, pc, tickets, idx, stats,
                   analyzed>>

NextExtract == GetFirstCustomerMessageCall

SpecExtract == InitExtract /\ [][NextExtract]_vars

-----------------------------------------------------------------------------
(* The classifier adapters' analyze_spam, called directly *)

AdapterStep(adapter, is_system_validated, r, o) ==
    /\ log' = o.w.log
    /\ result' = [op |-> "analyze_spam", adapter |-> adapter,
                  is_system_validated |-> is_system_validated,
                  response |-> r, raised |-> o.raised, ret |-> o.ret]
    /\ runs' = runs + 1
    /\ UNCHANGED <<handlers, probe, cfg, net, faults, remote, processed_tickets, pc, tickets, idx,
                   stats, analyzed>>

OpenAIAnalyzeSpamCall ==
    /\ runs < MaxRuns
    /\ \E v \in BOOLEAN, r \in AllResponses :
         \E o \in OpenAIAnalyzeSpam(World(remote, <<>>, faults), v, {r}) :
            AdapterStep("openai", v, r, o)

OllamaAnalyzeSpamCall ==
    /\ runs < MaxRuns
    /\ \E v \in BOOLEAN, r \in AllResponses :
         \E o \in OllamaAnalyzeSpam(World(remote, <<>>, faults), v, {r}) :
            AdapterStep("ollama", v, r, o)

NextAdapter ==
    \/ OpenAIAnalyzeSpamCall
    \/ OllamaAnalyzeSpamCall

SpecAdapter == Init /\ [][NextAdapter]_vars

-----------------------------------------------------------------------------
(* Concurrent executions of handle_spam_ticket for one ticket: overlapping *)
(* cycles, or a webhook event delivered again while the first delivery is  *)
(* still being handled (each in a process of its own).  An execution is at *)
(* the guard's read, at the note, at mark_as_spam, or done; one step is    *)
(* one client call.  No request fails here.                                *)

Invocations == 1..MaxInvocations

(* The confidences with which the final verdict is spam. *)
SpamConfidences == { c \in ConfLevels : SpamDecision(TRUE, c, cfg.spam) }

InitRace ==
    /\ cfg \in Configs
    /\ net = {}
    /\ faults = 0
    /\ remote = [t \in TicketIds |-> InitialTicket(t)]
    /\ processed_tickets = {}
    /\ pc = "idle"
    /\ tickets = <<>>
    /\ idx = 1
    /\ stats = ZeroStats
    /\ log = <<>>
    /\ result = [op |-> "init"]
    /\ runs = 0
    /\ analyzed = {}
    /\ probe = NoProbe
    /\ \E t \in TicketIds, confidence \in [Invocations -> SpamConfidences] :
          handlers = [p \in Invocations |->
                        [pc |-> "guard", ticket_id |-> t,
                         confidence |-> confidence[p]]]

(* The step of execution p that ends in world w at position next. *)
HandlerStep(p, w, next) ==
    /\ remote' = w.remote
    /\ faults' = w.faults
    /\ log' = w.log
    /\ handlers' = [handlers EXCEPT ![p].pc = next]
    /\ result' = [op |-> "handler_step", invocation |-> p,
                  ticket_id |-> handlers[p].ticket_id, at |-> handlers[p].pc]
    /\ UNCHANGED <<cfg, net, processed_tickets, pc, tickets, idx, stats, runs,
                   analyzed, probe>>

(* The guard: get_ticket_conversations and the scan for an existing note. *)
GuardRead ==
    \E p \in Invocations :
        /\ handlers[p].pc = "guard"
        /\ LET h == handlers[p]
               w0 == Call(World(remote, <<>>, faults), "handle_spam_ticket",
                          h.ticket_id)
           IN  \E c \in GetTicketConversations(w0, h.ticket_id) :
                 HandlerStep(p, c.w,
                     IF ~c.raised /\ HasSpamAlertNote(c.ret)
                       THEN IF h.confidence >= cfg.auto THEN "close" ELSE "done"
                       ELSE "note")

(* add_note_to_ticket, its failure only logged. *)
AddNote ==
    \E p \in Invocations :
        /\ handlers[p].pc = "note"
        /\ LET h == handlers[p]
           IN  \E n \in AddNoteToTicket(World(remote, <<>>, faults), h.ticket_id,
                                        SpamAlertNote) :
                 HandlerStep(p, n.w,
                     IF h.confidence >= cfg.auto THEN "close" ELSE "done")

(* mark_as_spam, taken as one step: it does not touch the conversations. *)
Close ==
    \E p \in Invocations :
        /\ handlers[p].pc = "close"
        /\ \E m \in MarkAsSpam(World(remote, <<>>, faults), handlers[p].ticket_id) :
              HandlerStep(p, m.w, "done")

NextRace ==
    \/ GuardRead
    \/ AddNote
    \/ Close

SpecRace == InitRace /\ [][NextRace]_vars

-----------------------------------------------------------------------------
(* OllamaClient: the constructor's readiness probe                         *)
(* (_test_and_prepare_ollama), then analyze_spam on the constructed        *)
(* client.  The probe's log holds its calls, each with the attempt in      *)
(* which it was made and the way it ended.                                 *)

InitProbe ==
    /\ cfg = [dry |-> FALSE, spam |-> SPAM_THRESHOLD_DEFAULT,
              auto |-> AUTO_CLOSE_SPAM_THRESHOLD_DEFAULT]
    /\ net = {"err"}
    /\ faults = 0
    /\ remote = [t \in TicketIds |-> InitialTicket(t)]
    /\ processed_tickets = {}
    /\ pc = "idle"
    /\ tickets = <<>>
    /\ idx = 1
    /\ stats = ZeroStats
    /\ log = <<>>
    /\ result = [op |-> "init"]
    /\ runs = 0
    /\ analyzed = {}
    /\ handlers = <<>>
    /\ \E is_lambda \in BOOLEAN :
          probe = [pc |-> "list", attempt |-> 0,
                   ollama_started_by_script |-> FALSE,
                   is_lambda |-> is_lambda, error |-> "none"]

(* The start of the server attempted in the Lambda environment too. *)
ShouldStartServerAnywhere(attempt, ollama_started_by_script, is_lambda) ==
    attempt = 0 /\ ~ollama_started_by_script

(* The test before "ollama serve" is started: the first attempt, no start  *)
(* made by the script yet, and not in the Lambda environment.              *)
ShouldStartServer(attempt, ollama_started_by_script, is_lambda) ==
    attempt = 0 /\ ~ollama_started_by_script /\ ~is_lambda

(* The handler of requests.exceptions.ConnectionError: start the server,   *)
(* or wait and retry, or raise ConnectionError after the last attempt.     *)
OnConnectionError(p) ==
    IF ShouldStartServer(p.attempt, p.ollama_started_by_script, p.is_lambda)
      THEN [p EXCEPT !.pc = "start"]
    ELSE IF p.attempt < MAX_RETRIES - 1
      THEN [p EXCEPT !.pc = "wait"]
    ELSE [p EXCEPT !.pc = "raised", !.error = "ConnectionError"]

(* An exception that leaves the probe. *)
ProbeRaised(p, error) == [p EXCEPT !.pc = "raised", !.error = error]

(* One call of the probe, ending in the way named by status. *)
ProbeStep(next, what, status) ==
    /\ probe' = next
    /\ log' = Append(log, [m |-> "CALL", what |-> what, t |-> probe.attempt,
                           fields |-> {}, status |-> status])
    /\ result' = [op |-> "probe"]
    /\ UNCHANGED <<cfg, net, faults, remote, processed_tickets, pc, tickets, idx,
                   stats, runs, analyzed, handlers>>

(* self.client.list(): the model is there, or is missing, or the call (or  *)
(* the reading of its answer) raises.                                      *)
ClientList ==
    /\ probe.pc = "list"
    /\ \E status \in {"present", "missing", "ConnectionError", "ResponseError",
                       "Exception"} :
         ProbeStep(CASE status = "present" -> [probe EXCEPT !.pc = "returned"]
                     [] status = "missing" -> [probe EXCEPT !.pc = "pull"]
                     [] status = "ConnectionError" -> OnConnectionError(probe)
                     [] OTHER -> ProbeRaised(probe, status),
                   "client.list", status)

(* self.client.pull(self.model): a ResponseError is logged and re-raised;  *)
(* any other exception goes to the handlers of the attempt.                *)
ClientPull ==
    /\ probe.pc = "pull"
    /\ \E status \in {"ok", "ConnectionError", "ResponseError", "Exception"} :
         ProbeStep(CASE status = "ok" -> [probe EXCEPT !.pc = "returned"]
                     [] status = "ConnectionError" -> OnConnectionError(probe)
                     [] OTHER -> ProbeRaised(probe, status),
                   "client.pull", status)

(* subprocess.Popen(["ollama", "serve"]): started (then the wait for the   *)
(* server and the next attempt), command not found (ConnectionError is     *)
(* raised), or another exception (logged, next attempt).                   *)
StartServer ==
    /\ probe.pc = "start"
    /\ \E status \in {"started", "FileNotFoundError", "Exception"} :
         ProbeStep(CASE status = "started" ->
                          [probe EXCEPT !.pc = "list", !.attempt = @ + 1,
                                        !.ollama_started_by_script = TRUE]
                     [] status = "FileNotFoundError" ->
                          ProbeRaised(probe, "ConnectionError")
                     [] OTHER -> [probe EXCEPT !.pc = "list", !.attempt = @ + 1],
                   "Popen", status)

(* time.sleep(connection_retry_delay_seconds), then the next attempt. *)
RetryWait ==
    /\ probe.pc = "wait"
    /\ ProbeStep([probe EXCEPT !.pc = "list", !.attempt = @ + 1], "sleep", "ok")

(* analyze_spam on the client whose constructor returned. *)
ProbedAnalyzeSpam ==
    /\ probe.pc = "returned"
    /\ OllamaAnalyzeSpamCall

NextProbe ==
    \/ ClientList
    \/ ClientPull
    \/ StartServer
    \/ RetryWait
    \/ ProbedAnalyzeSpam

(* The code is sequential and each of its calls returns or raises, so a    *)
(* step that is possible is eventually taken.                              *)
SpecProbe == InitProbe /\ [][NextProbe]_vars /\ WF_vars(NextProbe)

-----------------------------------------------------------------------------
(* Properties *)

(* The entries of the last step's log that satisfy P, as a set of indices. *)
Entries(m, what) == { i \in 1..Len(log) : log[i].m = m /\ log[i].what = what }

EntryPoints ==
    {"analyze_first_customer_message", "analyze_ticket", "process_single_ticket_data"}

(* C1: in each of the three entry points, whenever the classifier returned *)
(* a verdict, the result's is_spam is exactly (classifier is_spam and      *)
(* confidence >= spam_threshold): equality counts as spam, a spam verdict  *)
(* below the threshold does not, and the same inputs give the same value.  *)
C1_FinalVerdict ==
    result.op \in EntryPoints =>
        \A i \in Entries("RETURN", "analyze_spam") :
            /\ result.res.is_spam = (log[i].is_spam /\ log[i].confidence >= cfg.spam)
            /\ (log[i].is_spam /\ log[i].confidence = cfg.spam) => result.res.is_spam
            /\ (log[i].is_spam /\ log[i].confidence < cfg.spam) => ~result.res.is_spam

(* C1's case: an entry point returned spam on a confidence equal to the    *)
(* threshold.                                                              *)
C1_Witness ==
    /\ result.op \in EntryPoints
    /\ result.res.is_spam
    /\ \E i \in Entries("RETURN", "analyze_spam") :
          log[i].is_spam /\ log[i].confidence = cfg.spam

(* The number of spam-alert notes in a conversation list. *)
AlertCount(convs) ==
    Cardinality({ i \in 1..Len(convs) : convs[i].private /\ convs[i].alert })

(* The notes the last step posted successfully. *)
PostedNotes == { i \in Entries("POST", "notes") : log[i].status = "ok" }

(* The spam-alert notes ticket t had before the last step. *)
PriorAlertCount(t) == AlertCount(remote[t].convs) - Cardinality(PostedNotes)

Handled == Entries("CALL", "handle_spam_ticket") # {}

Puts == { i \in 1..Len(log) : log[i].m = "PUT" }

(* C2: handle_spam_ticket runs only when the final verdict is spam; when   *)
(* the ticket had no spam-alert note it adds one private note first and    *)
(* then calls mark_as_spam exactly when confidence >= the auto-close       *)
(* threshold; below the threshold the step issues no ticket update.        *)
C2_HandleSpam ==
    Handled =>
        /\ result.res.is_spam
        /\ Cardinality(Entries("CALL", "handle_spam_ticket")) = 1
        /\ PriorAlertCount(result.ticket_id) = 0 =>
              /\ Cardinality(Entries("CALL", "add_note_to_ticket")) = 1
              /\ ~cfg.dry => Cardinality(Entries("POST", "notes")) = 1
              /\ \A i \in PostedNotes :
                    LET convs == remote[result.ticket_id].convs
                    IN  convs[Len(convs)] = SpamAlertNote /\ convs[Len(convs)].private
              /\ \A n \in Entries("CALL", "add_note_to_ticket") :
                    \A k \in Entries("CALL", "mark_as_spam") \cup Puts : n < k
              /\ (Entries("CALL", "mark_as_spam") # {})
                    <=> (result.res.confidence >= cfg.auto)
              /\ Cardinality(Entries("CALL", "mark_as_spam")) <= 1
              /\ result.res.confidence < cfg.auto => Puts = {}

(* C2's case: a ticket without a prior note is handled on a confidence     *)
(* equal to the auto-close threshold; the note is posted and mark_as_spam  *)
(* called.                                                                 *)
C2_Witness ==
    /\ Handled
    /\ ~cfg.dry
    /\ PriorAlertCount(result.ticket_id) = 0
    /\ result.res.confidence = cfg.auto
    /\ PostedNotes # {}
    /\ Entries("CALL", "mark_as_spam") # {}
    /\ Puts # {}

(* The guard's read: the conversations request made inside                 *)
(* handle_spam_ticket.                                                     *)
GuardReads ==
    { i \in Entries("GET", "conversations") :
        \E h \in Entries("CALL", "handle_spam_ticket") : h < i }

Outcomes(s) ==
    s.skipped_already_processed + s.errors + s.spam_detected + s.legitimate

(* C8: once the list is fetched every ticket gets exactly one outcome, in  *)
(* list order, whatever happened to the others: after each iteration the   *)
(* outcomes counted equal the tickets passed, the iteration was about the  *)
(* next ticket of the list and added exactly one outcome, the loop can     *)
(* always go on, and the cycle returns statistics covering the whole list. *)
C8_BatchNeverAborts ==
    /\ pc = "loop" =>
          /\ idx <= Len(tickets) + 1
          /\ ENABLED (LoopIteration \/ LoopExit)
          /\ Outcomes(stats) = idx - 1
          /\ stats.total_processed = stats.spam_detected + stats.legitimate
    /\ result.op = "iteration" =>
          /\ result.ticket_id = tickets[idx - 1]
          /\ Outcomes(stats) = Outcomes(result.before) + 1
          /\ \A f \in DOMAIN stats : stats[f] >= result.before[f]
    /\ (result.op = "process_tickets" /\ result.fetched) =>
          /\ ~result.raised
          /\ Outcomes(result.stats) = Len(tickets)

(* C8's case: a cycle over two tickets returned after its first ticket     *)
(* errored and its second was processed.                                   *)
C8_Witness ==
    /\ result.op = "process_tickets"
    /\ result.fetched
    /\ Len(tickets) = 2
    /\ result.stats.errors = 1
    /\ result.stats.total_processed = 1
    /\ tickets[1] \notin processed_tickets
    /\ tickets[2] \in processed_tickets

(* The requests of the last step that failed. *)
FailedRequests ==
    { i \in 1..Len(log) : log[i].m \in {"GET", "PUT", "POST"} /\ log[i].status # "ok" }

(* The failed requests of the extraction: those made before the classifier *)
(* is called.                                                              *)
ExtractionFailures ==
    { i \in FailedRequests : \A c \in Entries("CALL", "analyze_spam") : i < c }

(* C9 as stated: an iteration in which a request to the ticket source      *)
(* failed, during extraction or during the action, counts one error.       *)
C9_EveryFailureCounted ==
    (result.op = "iteration" /\ FailedRequests # {}) =>
        /\ result.outcome = "errored"
        /\ stats.errors = result.before.errors + 1

(* C10: when the extraction fails the iteration ends errored: errors + 1,  *)
(* the other counters unchanged, no classifier call, and the id is not in  *)
(* processed_tickets.                                                      *)
C10_ExtractionFailure ==
    (result.op = "iteration" /\ ExtractionFailures # {}) =>
        /\ result.outcome = "errored"
        /\ stats = [result.before EXCEPT !.errors = @ + 1]
        /\ Entries("CALL", "analyze_spam") = {}
        /\ Entries("MODEL", "chat") = {}
        /\ result.ticket_id \notin processed_tickets

(* C10's case: the extraction of a ticket failed in a cycle that had       *)
(* already processed another ticket.                                       *)
C10_Witness ==
    /\ result.op = "iteration"
    /\ ExtractionFailures # {}
    /\ result.outcome = "errored"
    /\ result.before.total_processed = 1
    /\ processed_tickets # {}

PutsOf(field) == { i \in Puts : field \in log[i].fields }

Failed(S) == \E i \in S : log[i].status # "ok"

(* C4: mark_as_spam outside dry run issues the assignment only for a       *)
(* ticket not yet assigned to the agent, then the tag overwrite, then the  *)
(* status change, each after the one before succeeded; when the assignment *)
(* or the tag overwrite fails the call raises, no status update is issued  *)
(* and the ticket's status is what it was.                                 *)
C4_MarkAsSpamOrder ==
    (result.op = "mark_as_spam" /\ ~cfg.dry) =>
        LET A == PutsOf("responder_id")
            T == PutsOf("tags")
            S == PutsOf("status")
            t == result.ticket_id
        IN  /\ Cardinality(A) <= 1 /\ Cardinality(T) <= 1 /\ Cardinality(S) <= 1
            /\ Puts = A \cup T \cup S
            /\ A # {} => result.before.responder_id # AGENT_ID_TO_ASSIGN
            /\ (T # {} /\ result.before.responder_id # AGENT_ID_TO_ASSIGN) => A # {}
            /\ \A a \in A : \A k \in T \cup S : a < k
            /\ \A k \in T : \A c \in S : k < c
            /\ T # {} => ~Failed(A)
            /\ S # {} => (T # {} /\ ~Failed(T))
            /\ Failed(A \cup T) =>
                  /\ result.raised
                  /\ S = {}
                  /\ remote[t].status = result.before.status
            /\ ~result.raised =>
                  /\ remote[t].responder_id = AGENT_ID_TO_ASSIGN
                  /\ remote[t].tags = EXCLUSIVE_TAG
                  /\ remote[t].status = STATUS_CLOSED

(* C4's case: the assignment succeeded, the tag overwrite failed, the call *)
(* raised and the ticket is still new.                                     *)
C4_Witness ==
    /\ result.op = "mark_as_spam"
    /\ ~cfg.dry
    /\ PutsOf("responder_id") # {}
    /\ ~Failed(PutsOf("responder_id"))
    /\ Failed(PutsOf("tags"))
    /\ result.raised
    /\ remote[result.ticket_id].status = STATUS_NEW
    /\ remote[result.ticket_id].responder_id = AGENT_ID_TO_ASSIGN

(* C5: in dry run no call of update_ticket, add_tag_to_ticket,             *)
(* add_note_to_ticket or mark_as_spam issues a PUT or a POST, and the      *)
(* remote tickets stay what they were.                                     *)
C5_DryRunNoMutation ==
    cfg.dry =>
        /\ \A i \in 1..Len(log) : log[i].m \notin {"PUT", "POST"}
        /\ remote = [t \in TicketIds |-> InitialTicket(t)]

(* C5's case: in dry run, after an earlier client call, mark_as_spam read  *)
(* the ticket and returned.                                                *)
C5_Witness ==
    /\ cfg.dry
    /\ runs = MaxRuns
    /\ result.op = "mark_as_spam"
    /\ ~result.raised
    /\ Entries("GET", "ticket") # {}

(* The dry-run read of the current ticket failed: the last request of the  *)
(* step is a failed GET.                                                   *)
ReadFailed == log[Len(log)].m = "GET" /\ log[Len(log)].status # "ok"

Reflects(ret, request) ==
    \A f \in DOMAIN request : f \in DOMAIN ret /\ ret[f] = request[f]

MarkAsSpamRequest ==
    [responder_id |-> AGENT_ID_TO_ASSIGN, tags |-> EXCLUSIVE_TAG,
     status |-> STATUS_CLOSED]

(* C6 as stated: in dry run the ticket returned by update_ticket and by    *)
(* mark_as_spam carries the requested value in every requested field.      *)
C6_DryRunReflectsRequest ==
    cfg.dry =>
        /\ result.op = "update_ticket" => Reflects(result.ret, result.request)
        /\ result.op = "mark_as_spam" => Reflects(result.ret, MarkAsSpamRequest)

(* C6, amended: in dry run mark_as_spam returns a ticket with the agent,   *)
(* the sentinel tag and status 5 whether or not its read succeeds;         *)
(* update_ticket returns the requested values only when its read fails,    *)
(* and otherwise the ticket as the remote holds it.                        *)
C6_DryRunReturn ==
    cfg.dry =>
        /\ result.op = "mark_as_spam" =>
              /\ ~result.raised
              /\ Reflects(result.ret, MarkAsSpamRequest)
              /\ result.ret.id = result.ticket_id
        /\ result.op = "update_ticket" =>
              /\ ~result.raised
              /\ IF ReadFailed
                   THEN result.ret = Merge([id |-> result.ticket_id], result.request)
                   ELSE result.ret = TicketJson(remote, result.ticket_id)

(* C6's case: in dry run mark_as_spam read a ticket that has other tags,   *)
(* another assignee and status 2, and returned it with the three fields    *)
(* replaced.                                                               *)
C6_Witness ==
    /\ cfg.dry
    /\ result.op = "mark_as_spam"
    /\ ~ReadFailed
    /\ remote[result.ticket_id].tags # <<>>
    /\ remote[result.ticket_id].status = STATUS_NEW
    /\ Reflects(result.ret, MarkAsSpamRequest)

(* C7 as stated: analyze_spam never raises, a failed model call gives the  *)
(* safe default (not spam, confidence 0), and one invocation makes at most *)
(* one model call.                                                         *)
C7_NeverRaises ==
    result.op = "analyze_spam" =>
        /\ ~result.raised
        /\ Failed(Entries("MODEL", "chat")) =>
              (~result.ret.is_spam /\ result.ret.confidence = 0)
        /\ Cardinality(Entries("MODEL", "chat")) <= 1

(* C11 as stated: a ticket the polling process analyzed in an earlier      *)
(* cycle is skipped when a later cycle lists it again: the skip counter    *)
(* goes up, total_processed does not, and nothing is called for it.        *)
C11_SkippedInLaterCycle ==
    (result.op = "iteration" /\ result.analyzed_before) =>
        /\ result.outcome = "skipped"
        /\ stats.skipped_already_processed
             = result.before.skipped_already_processed + 1
        /\ stats.total_processed = result.before.total_processed
        /\ log = <<>>

(* The step that has just been taken constructed a new SpamFilter. *)
NewInstance == Entries("CALL", "SpamFilter") # {}

(* C12: within one SpamFilter instance processed_tickets only grows; a     *)
(* step adds at most the id of the ticket it processed, and only after the *)
(* extraction succeeded and the classifier was called; a ticket processed  *)
(* as spam or as legitimate is in the set afterwards.                      *)
C12_OnlyGrows ==
    [][ IF NewInstance'
          THEN processed_tickets' = {}
          ELSE /\ processed_tickets \subseteq processed_tickets'
               /\ \A t \in processed_tickets' \ processed_tickets :
                     /\ result'.op \in {"iteration", "event"}
                     /\ result'.ticket_id = t
                     /\ ExtractionFailures' = {}
                     /\ Entries("CALL", "analyze_spam")' # {}
               /\ (result'.op = "iteration" /\ result'.outcome \in {"spam", "legitimate"})
                     => result'.ticket_id \in processed_tickets'
      ]_vars

(* C12's case: an instance that had processed one ticket processed a       *)
(* second one, as spam, and holds both ids.                                *)
C12_Witness ==
    /\ result.op = "iteration"
    /\ result.outcome = "spam"
    /\ Cardinality(processed_tickets) = 2

(* C13: when the listing request fails the cycle ends at once: no ticket   *)
(* is extracted, classified or acted on, the remote and processed_tickets  *)
(* are what they were, and process_tickets returns (does not raise)        *)
(* statistics with errors = 1 and every other counter 0; and a failed      *)
(* listing never ends any other way.                                       *)
C13_ListingFailure ==
    [][ /\ (result'.op = "process_tickets" /\ ~result'.fetched) =>
              /\ Failed(Entries("GET", "tickets"))'
              /\ ~result'.raised
              /\ result'.stats.errors >= 1
              /\ result'.stats = [ZeroStats EXCEPT !.errors = 1]
              /\ pc' = "idle"
              /\ Entries("CALL", "get_first_customer_message")' = {}
              /\ Entries("CALL", "analyze_spam")' = {}
              /\ Entries("CALL", "handle_spam_ticket")' = {}
              /\ Puts' = {}
              /\ Entries("POST", "notes")' = {}
              /\ remote' = remote
              /\ processed_tickets' = IF NewInstance' THEN {} ELSE processed_tickets
        /\ Failed(Entries("GET", "tickets"))' =>
              (result'.op = "process_tickets" /\ ~result'.fetched)
      ]_vars

(* C13's case: the listing failed for an instance that had processed a     *)
(* ticket before.                                                          *)
C13_Witness ==
    /\ result.op = "process_tickets"
    /\ ~result.fetched
    /\ Failed(Entries("GET", "tickets"))
    /\ processed_tickets # {}

(* The ids of the remote's answer to a listing with the given limit. *)
ResponseIds(limit) ==
    { t \in TicketIds : t > MaxTickets - Min(limit, FRESHDESK_MAX_PER_PAGE) }

(* C14: get_tickets with only_new returns exactly the tickets of the       *)
(* answer that have status 2, in the answer's order (newest first), and    *)
(* no ticket of another status.                                            *)
C14_NewOnlyFilter ==
    (result.op = "get_tickets" /\ result.request.only_new /\ ~result.raised) =>
        LET ret == result.ret
        IN  /\ \A i \in 1..Len(ret) : remote[ret[i]].status = STATUS_NEW
            /\ \A i \in 1..Len(ret) : ret[i] \in ResponseIds(result.request.limit)
            /\ \A t \in ResponseIds(result.request.limit) :
                  remote[t].status = STATUS_NEW => \E i \in 1..Len(ret) : ret[i] = t
            /\ \A i \in 1..Len(ret) : \A j \in 1..Len(ret) : i < j => ret[i] > ret[j]

(* C14's case: the answer holds a closed ticket and a new one, and the     *)
(* result is the new one alone.                                            *)
C14_Witness ==
    /\ result.op = "get_tickets"
    /\ result.request.only_new
    /\ ~result.raised
    /\ Len(result.ret) = 1
    /\ \E t \in ResponseIds(result.request.limit) : remote[t].status # STATUS_NEW

FromCustomer(entry) == ~entry.private /\ entry.incoming

(* C15: get_first_customer_message returns the earliest entry of the       *)
(* thread that is not private and is incoming, under that entry's id; when *)
(* no entry qualifies it returns the ticket's own description with no      *)
(* conversation id (written 0).                                            *)
C15_FirstCustomerMessage ==
    (result.op = "get_first_customer_message" /\ ~result.raised) =>
        LET convs == remote[result.ticket_id].convs
            id == result.ret.conversation_id
        IN  /\ result.ret.ticket_id = result.ticket_id
            /\ IF \E i \in 1..Len(convs) : FromCustomer(convs[i])
                 THEN /\ id \in 1..Len(convs)
                      /\ FromCustomer(convs[id])
                      /\ \A j \in 1..(id - 1) : ~FromCustomer(convs[j])
                      /\ result.ret.source = "conversation"
                 ELSE /\ id = 0
                      /\ result.ret.source = "description"

(* C15's case: a thread of an agent reply, a private note and then a       *)
(* customer's entry: the third entry is returned.                          *)
C15_Witness ==
    /\ result.op = "get_first_customer_message"
    /\ ~result.raised
    /\ remote[result.ticket_id].convs = <<AgentReply, AgentNote, CustomerEntry>>
    /\ result.ret.conversation_id = 3

(* The classifier was called and what it returned, if anything, is not     *)
(* spam under the threshold.                                               *)
NotSpamVerdict ==
    /\ Entries("CALL", "analyze_spam") # {}
    /\ \A i \in Entries("RETURN", "analyze_spam") :
          ~(log[i].is_spam /\ log[i].confidence >= cfg.spam)

(* C16: when the final verdict is not spam, a spam verdict of the          *)
(* classifier below the threshold included, the step issues no PUT and no  *)
(* POST and does not call handle_spam_ticket; in a cycle total_processed   *)
(* and legitimate go up by one and no other counter changes.               *)
C16_LegitimateNoMutation ==
    (result.op \in {"iteration", "event"} /\ NotSpamVerdict) =>
        /\ ~result.res.is_spam
        /\ \A i \in 1..Len(log) : log[i].m \notin {"PUT", "POST"}
        /\ ~Handled
        /\ result.op = "iteration" =>
              /\ result.outcome = "legitimate"
              /\ stats = [result.before EXCEPT !.total_processed = @ + 1,
                                               !.legitimate = @ + 1]

(* C16's case: outside dry run the classifier said spam with a confidence  *)
(* below the threshold and the cycle counted the ticket as legitimate.     *)
C16_Witness ==
    /\ result.op = "iteration"
    /\ ~cfg.dry
    /\ result.outcome = "legitimate"
    /\ \E i \in Entries("RETURN", "analyze_spam") :
          log[i].is_spam /\ log[i].confidence < cfg.spam

(* The processing of the event's ticket failed: the classifier call        *)
(* raised, or a request of the action failed.                              *)
EventProcessingFailed ==
    \/ result.res.action_taken = "error_in_processing"
    \/ FailedRequests # {}

(* C17 as stated: when the processing of the event's ticket fails the      *)
(* handler answers with an error response, not a success response, that    *)
(* carries the ticket id.                                                  *)
C17_EventErrorResponse ==
    (result.op = "event" /\ EventProcessingFailed) =>
        /\ result.statusCode >= 400
        /\ result.ticket_id = result.res.ticket_id

(* The model's text is not JSON. *)
Unparseable == result.response.kind = "not_json"

(* C18 as stated: in every adapter, a model text that does not parse as    *)
(* the JSON verdict gives the lexical heuristic's verdict, (true, 0.5)     *)
(* when the text says "spam" and "true" or "yes" and (false, 0.0)          *)
(* otherwise, and is never raised as a failure.                            *)
C18_LexicalFallback ==
    (result.op = "analyze_spam" /\ Unparseable) =>
        /\ ~result.raised
        /\ result.ret.is_spam
              = (result.response.says_spam /\ result.response.says_yes)
        /\ result.ret.confidence = (IF result.ret.is_spam THEN 50 ELSE 0)

(* mark_as_spam has run outside dry run on a ticket that was already       *)
(* assigned to the agent, tagged with exactly the sentinel tag and closed. *)
AlreadyMarked ==
    /\ result.op = "mark_as_spam"
    /\ ~cfg.dry
    /\ result.before.responder_id = AGENT_ID_TO_ASSIGN
    /\ result.before.tags = EXCLUSIVE_TAG
    /\ result.before.status = STATUS_CLOSED

(* C19 as stated: on an already marked ticket mark_as_spam issues no       *)
(* update at all and leaves the ticket as it was.                          *)
C19_NoUpdateWhenMarked ==
    AlreadyMarked =>
        /\ Puts = {}
        /\ remote[result.ticket_id] = result.before

(* C19, amended: on an already marked ticket mark_as_spam issues no        *)
(* assignment, issues the tags update and then the status update again,    *)
(* once each unless a request fails, and leaves the ticket as it was, so   *)
(* that running it twice ends in the state of running it once.             *)
C19_IdempotentState ==
    AlreadyMarked =>
        /\ PutsOf("responder_id") = {}
        /\ remote[result.ticket_id] = result.before
        /\ Cardinality(PutsOf("tags")) <= 1
        /\ Cardinality(PutsOf("status")) <= 1
        /\ \A i \in PutsOf("tags"), j \in PutsOf("status") : i < j
        /\ ~result.raised =>
              /\ Cardinality(PutsOf("tags")) = 1
              /\ Cardinality(PutsOf("status")) = 1

(* C19's case: the second mark_as_spam of a ticket succeeded and issued    *)
(* its two updates.                                                        *)
C19_Witness ==
    /\ AlreadyMarked
    /\ ~result.raised
    /\ Cardinality(Puts) = 2

(* Outside dry run a ticket without a spam-alert note was classified as    *)
(* spam with a confidence at or above both thresholds and no request of    *)
(* the step failed.                                                        *)
ConfidentSpamAllSucceed ==
    /\ result.op \in {"iteration", "event"}
    /\ ~cfg.dry
    /\ FailedRequests = {}
    /\ PriorAlertCount(result.ticket_id) = 0
    /\ \E i \in Entries("RETURN", "analyze_spam") :
          /\ log[i].is_spam
          /\ log[i].confidence >= cfg.spam
          /\ log[i].confidence >= cfg.auto

(* C20: a ticket without a spam-alert note, classified as spam with a      *)
(* confidence at or above both thresholds, all requests succeeding: one    *)
(* private spam-alert note is added, then mark_as_spam is called once, and *)
(* the ticket ends assigned to the agent with the sentinel tag as its only *)
(* tag and status 5; the cycle counts it in spam_detected.                 *)
C20_ConfidentSpamClosed ==
    ConfidentSpamAllSucceed =>
        /\ Cardinality(Entries("POST", "notes")) = 1
        /\ AlertCount(remote[result.ticket_id].convs) = 1
        /\ Cardinality(Entries("CALL", "mark_as_spam")) = 1
        /\ \A n \in Entries("POST", "notes"), c \in Entries("CALL", "mark_as_spam") :
              n < c
        /\ remote[result.ticket_id].tags = EXCLUSIVE_TAG
        /\ remote[result.ticket_id].status = STATUS_CLOSED
        /\ remote[result.ticket_id].responder_id = AGENT_ID_TO_ASSIGN
        /\ result.op = "iteration" =>
              /\ result.outcome = "spam"
              /\ stats = [result.before EXCEPT !.total_processed = @ + 1,
                                               !.spam_detected = @ + 1]

(* C20's case: the first cycle closed a ticket that had another tag, which *)
(* the sentinel tag has replaced.                                          *)
C20_Witness ==
    /\ ConfidentSpamAllSucceed
    /\ result.op = "iteration"
    /\ InitialTicket(result.ticket_id).tags # <<>>
    /\ PutsOf("tags") # {}
    /\ remote[result.ticket_id].tags = EXCLUSIVE_TAG

(* C21: the statistics of a cycle start at zero, total_processed is always *)
(* spam_detected + legitimate, and once the list was fetched the tickets   *)
(* the loop has passed are total_processed + errors +                      *)
(* skipped_already_processed: all of the fetched list when the cycle       *)
(* returns.                                                                *)
C21_CycleStatistics ==
    /\ stats.total_processed = stats.spam_detected + stats.legitimate
    /\ result.op = "fetch" => stats = ZeroStats
    /\ pc = "loop" =>
          stats.total_processed + stats.errors + stats.skipped_already_processed
            = idx - 1
    /\ result.op = "process_tickets" =>
          /\ result.stats = stats
          /\ result.fetched =>
                stats.total_processed + stats.errors
                  + stats.skipped_already_processed = Len(tickets)
          /\ ~result.fetched => stats = [ZeroStats EXCEPT !.errors = 1]

(* C21's case: a second cycle on the same instance returned after it       *)
(* skipped one ticket of a fetched list of two and counted the other.      *)
C21_Witness ==
    /\ result.op = "process_tickets"
    /\ result.fetched
    /\ runs = 2
    /\ Len(tickets) = 2
    /\ stats.skipped_already_processed = 1
    /\ stats.total_processed + stats.errors = 1

(* handle_spam_ticket read the conversations and found a spam-alert note.  *)
ExistingNoteFound ==
    /\ Handled
    /\ GuardReads # {}
    /\ \A i \in GuardReads : log[i].status = "ok"
    /\ PriorAlertCount(result.ticket_id) >= 1

(* The ticket is assigned to the agent, carries the sentinel tag only and  *)
(* has status 5.                                                           *)
Marked(ticket) ==
    /\ ticket.responder_id = AGENT_ID_TO_ASSIGN
    /\ ticket.tags = EXCLUSIVE_TAG
    /\ ticket.status = STATUS_CLOSED

(* C22: when handle_spam_ticket finds an existing spam-alert note it adds  *)
(* no note; with a confidence at or above the auto-close threshold it      *)
(* calls mark_as_spam once, which outside dry run and without a failed     *)
(* request leaves the ticket assigned, sentinel-tagged and closed; below   *)
(* the threshold it issues no update; nothing else follows.                *)
C22_ExistingNote ==
    ExistingNoteFound =>
        /\ Entries("CALL", "add_note_to_ticket") = {}
        /\ Entries("POST", "notes") = {}
        /\ \A i \in Entries("RETURN", "analyze_spam") :
              IF log[i].confidence >= cfg.auto
                THEN /\ Cardinality(Entries("CALL", "mark_as_spam")) = 1
                     /\ \A g \in GuardReads, c \in Entries("CALL", "mark_as_spam") :
                           g < c
                     /\ (~cfg.dry /\ FailedRequests = {}) =>
                           Marked(remote[result.ticket_id])
                ELSE /\ Entries("CALL", "mark_as_spam") = {}
                     /\ Puts = {}
                     /\ \A g \in GuardReads : g = Len(log)

(* C22's case: a ticket that carried a spam-alert note and was still open  *)
(* is handled again with a confidence at or above the auto-close           *)
(* threshold and ends closed, with the one note it had.                    *)
C22_Witness ==
    /\ ExistingNoteFound
    /\ ~cfg.dry
    /\ FailedRequests = {}
    /\ PutsOf("status") # {}
    /\ Marked(remote[result.ticket_id])
    /\ AlertCount(remote[result.ticket_id].convs) = 1

(* The classifier call of a batch iteration failed. *)
ClassifierFailed ==
    /\ result.op = "iteration"
    /\ Failed(Entries("MODEL", "chat"))

(* C23: when the classifier call of a batch iteration fails, the result is *)
(* not spam with confidence 0 and the reasoning "Analysis failed", the     *)
(* ticket counts as legitimate in total_processed, errors and the other    *)
(* counters are unchanged, no PUT or POST is issued and the id is added to *)
(* processed_tickets.                                                      *)
C23_ClassifierFailure ==
    ClassifierFailed =>
        /\ result.outcome = "legitimate"
        /\ ~result.res.is_spam
        /\ result.res.confidence = 0
        /\ result.res.reasoning = "Analysis failed"
        /\ stats = [result.before EXCEPT !.total_processed = @ + 1,
                                         !.legitimate = @ + 1]
        /\ \A i \in 1..Len(log) : log[i].m \notin {"PUT", "POST"}
        /\ ~Handled
        /\ result.ticket_id \in processed_tickets
        /\ pc = "loop"

(* C23's case: the classifier call failed for the second ticket of a cycle *)
(* outside dry run, after the extraction's requests succeeded.             *)
C23_Witness ==
    /\ ClassifierFailed
    /\ ~cfg.dry
    /\ FailedRequests = {}
    /\ result.before.total_processed = 1
    /\ stats.legitimate >= 1

(* C24 as stated: with PROCESS_NEW_TICKETS_ONLY false the listing request  *)
(* carries the filter 'open' and the answer is not filtered to status 2:   *)
(* the cycle's list is the whole answer.                                   *)
C24_AllOpenTickets ==
    (result.op = "fetch" /\ ~result.new_tickets_only) =>
        /\ \A i \in Entries("GET", "tickets") : log[i].fields = {"open"}
        /\ tickets = Listing(Min(result.limit, FRESHDESK_MAX_PER_PAGE))

(* The classifier's verdict of the step is spam with a confidence at or    *)
(* above both thresholds.                                                  *)
ConfidentSpam ==
    \E i \in Entries("RETURN", "analyze_spam") :
        /\ log[i].is_spam
        /\ log[i].confidence >= cfg.spam
        /\ log[i].confidence >= cfg.auto

(* C25: a step of a cycle or an event issues a ticket update (assignment,  *)
(* tag overwrite or status 5) only for the ticket it processes and only    *)
(* when the classifier's verdict in that step was spam with a confidence   *)
(* at or above both the spam and the auto-close threshold, whichever of    *)
(* the two is the higher.                                                  *)
C25_ClosureSafety ==
    /\ Puts # {} =>
          /\ result.op \in {"iteration", "event"}
          /\ ConfidentSpam
          /\ \A p \in Puts : log[p].t = result.ticket_id
    /\ ~ConfidentSpam => Entries("CALL", "mark_as_spam") = {}

(* C25's case: with the auto-close threshold configured below the spam     *)
(* threshold a ticket was closed outside dry run.                          *)
C25_Witness ==
    /\ cfg.auto < cfg.spam
    /\ ~cfg.dry
    /\ PutsOf("status") # {}
    /\ remote[result.ticket_id].status = STATUS_CLOSED

(* C26: in handle_spam_ticket a failed POST of the note is followed by     *)
(* mark_as_spam when the confidence is at or above the auto-close          *)
(* threshold, and a failed read of the conversations by the guard is       *)
(* followed by the note step and, at that confidence, by mark_as_spam.     *)
C26_FailuresDoNotStopHandling ==
    Handled =>
        \A r \in Entries("RETURN", "analyze_spam") :
            /\ \A n \in Entries("POST", "notes") :
                  (log[n].status # "ok" /\ log[r].confidence >= cfg.auto) =>
                      \E c \in Entries("CALL", "mark_as_spam") : n < c
            /\ \A g \in GuardReads :
                  log[g].status # "ok" =>
                      /\ \E a \in Entries("CALL", "add_note_to_ticket") : g < a
                      /\ log[r].confidence >= cfg.auto =>
                            \E c \in Entries("CALL", "mark_as_spam") : g < c

(* C26's case: the note's POST failed and the ticket ended closed and      *)
(* sentinel-tagged without a spam-alert note.                              *)
C26_Witness ==
    /\ Handled
    /\ Failed(Entries("POST", "notes"))
    /\ Marked(remote[result.ticket_id])
    /\ AlertCount(remote[result.ticket_id].convs) = 0

(* C27: mark_as_spam outside dry run does not undo what it has done: when  *)
(* the status update fails the call raises and the ticket is left assigned *)
(* to the agent with the sentinel tag as its only tag and the status it    *)
(* had; when the tag overwrite fails the call raises, the assignment made  *)
(* before it stays and tags and status are what they were.                 *)
C27_NoRollback ==
    (result.op = "mark_as_spam" /\ ~cfg.dry) =>
        /\ Failed(PutsOf("status")) =>
              /\ result.raised
              /\ remote[result.ticket_id].responder_id = AGENT_ID_TO_ASSIGN
              /\ remote[result.ticket_id].tags = EXCLUSIVE_TAG
              /\ remote[result.ticket_id].status = result.before.status
        /\ Failed(PutsOf("tags")) =>
              /\ result.raised
              /\ PutsOf("status") = {}
              /\ remote[result.ticket_id].responder_id = AGENT_ID_TO_ASSIGN
              /\ remote[result.ticket_id].tags = result.before.tags
              /\ remote[result.ticket_id].status = result.before.status

(* C27's case: the status update failed on a ticket that had another tag   *)
(* and another agent; the tag is lost and the ticket is still open.        *)
C27_Witness ==
    /\ result.op = "mark_as_spam"
    /\ ~cfg.dry
    /\ Failed(PutsOf("status"))
    /\ result.before.tags # <<>>
    /\ result.before.tags # EXCLUSIVE_TAG
    /\ result.before.responder_id # AGENT_ID_TO_ASSIGN
    /\ remote[result.ticket_id].tags = EXCLUSIVE_TAG
    /\ remote[result.ticket_id].status = STATUS_NEW

(* C28: process_single_ticket_data does not consult processed_tickets: a   *)
(* ticket id that is already in the set is classified again, and handled   *)
(* again when the verdict is spam, the set staying as it was or gaining    *)
(* that id only; a payload without a ticket id returns the error result    *)
(* with no classifier call, no request and processed_tickets unchanged.    *)
C28_SingleTicketNoSkip ==
    result.op = "process_single_ticket_data" =>
        IF result.ticket_id = NoTicketId
          THEN /\ log = <<>>
               /\ result.res.reasoning = "Ticket ID missing"
               /\ ~result.res.is_spam
               /\ remote = result.remote_before
               /\ processed_tickets = result.processed_before
          ELSE /\ Cardinality(Entries("CALL", "analyze_spam")) = 1
               /\ Cardinality(Entries("MODEL", "chat")) = 1
               /\ result.res.is_spam <=> Handled
               /\ processed_tickets \in
                     {result.processed_before,
                      result.processed_before \cup {result.ticket_id}}

(* C28's case: a ticket id that was already in processed_tickets was       *)
(* delivered again, classified as spam and handled again.                  *)
C28_Witness ==
    /\ result.op = "process_single_ticket_data"
    /\ result.ticket_id \in result.processed_before
    /\ Entries("MODEL", "chat") # {}
    /\ Handled

(* C29 as stated: whatever the interleaving of the executions of           *)
(* handle_spam_ticket for one ticket, once they are all done the ticket    *)
(* carries at most one spam-alert note.                                    *)
C29_GuardUnderInterleaving ==
    (\A p \in DOMAIN handlers : handlers[p].pc = "done") =>
        \A p \in DOMAIN handlers :
            AlertCount(remote[handlers[p].ticket_id].convs) <= 1

ProbeEnded == probe.pc \in {"returned", "raised"}

(* The attempts of the probe: its calls of client.list(). *)
ConnectionAttempts == Entries("CALL", "client.list")

ServerStarts == Entries("CALL", "Popen")

(* Every attempt made so far failed with a connection error. *)
EveryAttemptFailedToConnect ==
    \A a \in ConnectionAttempts :
        \E i \in 1..Len(log) : /\ log[i].t = log[a].t
                               /\ log[i].what \in {"client.list", "client.pull"}
                               /\ log[i].status = "ConnectionError"

(* At most MAX_RETRIES attempts; a return only after an attempt that found *)
(* the model or pulled it; at most one start of the server, after the      *)
(* failure of the first attempt only and never in the Lambda environment.  *)
ProbeBounded ==
    /\ Cardinality(ConnectionAttempts) <= MAX_RETRIES
    /\ probe.pc = "returned" =>
          \E a \in ConnectionAttempts :
              /\ \A b \in ConnectionAttempts : b <= a
              /\ \/ log[a].status = "present"
                 \/ /\ log[a].status = "missing"
                    /\ \E i \in Entries("CALL", "client.pull") :
                          log[i].t = log[a].t /\ log[i].status = "ok"
    /\ probe.pc = "raised" => probe.error # "none"
    /\ Cardinality(ServerStarts) <= 1
    /\ \A s \in ServerStarts :
          /\ ~probe.is_lambda
          /\ log[s].t = 0
          /\ Cardinality({ a \in ConnectionAttempts : a < s }) = 1
          /\ \E i \in 1..(s - 1) : log[i].status = "ConnectionError"

(* C30 as stated: the probe always ends, by returning or raising, within   *)
(* three attempts and one start of the server (never in Lambda), and when  *)
(* every attempt failed with a connection error it raises ConnectionError  *)
(* after the third attempt.                                                *)
C30_ProbeAsStated ==
    /\ [](result.op = "probe" =>
            /\ ProbeBounded
            /\ (ProbeEnded /\ EveryAttemptFailedToConnect) =>
                  /\ probe.error = "ConnectionError"
                  /\ Cardinality(ConnectionAttempts) = MAX_RETRIES)
    /\ <>ProbeEnded

(* C30, amended: the same, except that when every attempt failed with a    *)
(* connection error the probe raises ConnectionError either after the      *)
(* third attempt or right after the first one, when the start of the       *)
(* server failed because the ollama command was not found.                 *)
C30_ProbeTerminates ==
    /\ [](result.op = "probe" =>
            /\ ProbeBounded
            /\ (ProbeEnded /\ EveryAttemptFailedToConnect) =>
                  /\ probe.error = "ConnectionError"
                  /\ \/ Cardinality(ConnectionAttempts) = MAX_RETRIES
                     \/ /\ Cardinality(ConnectionAttempts) = 1
                        /\ \E s \in ServerStarts :
                              log[s].status = "FileNotFoundError")
    /\ <>ProbeEnded

(* C30's case: three attempts failed to connect, the server was started    *)
(* once after the first, and the probe raised ConnectionError.             *)
C30_Witness ==
    /\ result.op = "probe"
    /\ probe.pc = "raised"
    /\ probe.error = "ConnectionError"
    /\ Cardinality(ConnectionAttempts) = MAX_RETRIES
    /\ Cardinality(ServerStarts) = 1
    /\ EveryAttemptFailedToConnect

====
